---- MODULE Spec2Model ----
(***************************************************************************)
(* Model of confluence_sync/config.py: the Config loader that merges a     *)
(* YAML file with environment overrides into a validated SyncConfig, and   *)
(* writes template / interactive config files.                             *)
(*                                                                         *)
(* Python strings are TLA+ strings (TLC evaluates Len, SubSeq and \o on    *)
(* them).  Every Python object is a tagged record [t |-> type, type |->    *)
(* payload], read with V.  The file at config_path is held as a YAML       *)
(* document: a tree of nodes [k |-> kind, kind |-> content], read with N,  *)
(* whose scalars carry their style (plain or quoted), so that yaml.dump    *)
(* and yaml.safe_load are two conversions and not the identity.            *)
(***************************************************************************)
EXTENDS Integers, Sequences, FiniteSets, TLC

VARIABLES file, environ, dotenv, _config, last, probe

vars == <<file, environ, dotenv, _config, last, probe>>

(***************************************************************************)
(* str methods                                                             *)
(***************************************************************************)
\* x = e; body(x): e is evaluated once and bound, as an assignment does
Let(e, body(_)) == CHOOSE r \in {body(x) : x \in {e}} : TRUE

Char(s, i) == SubSeq(s, i, i)

IsSpace(c) == c \in {" ", "\t", "\n"}

\* the index of the first character of s, from i on, that is not white space
RECURSIVE LStripStart(_, _)
LStripStart(s, i) ==
    IF i <= Len(s) /\ IsSpace(Char(s, i)) THEN LStripStart(s, i + 1) ELSE i

\* the index of the last character of s, up to n, that is not white space
RECURSIVE RStripEnd(_, _)
RStripEnd(s, n) ==
    IF n > 0 /\ IsSpace(Char(s, n)) THEN RStripEnd(s, n - 1) ELSE n

strip(value) ==
    Let(value, LAMBDA s : SubSeq(s, LStripStart(s, 1), RStripEnd(s, Len(s))))

startswith(s, c) == Len(s) > 0 /\ Char(s, 1) = c

\* index of the first occurrence of the character c in s at or after i, 0 if none
RECURSIVE find(_, _, _)
find(s, c, i) ==
    IF i > Len(s) THEN 0 ELSE IF Char(s, i) = c THEN i ELSE find(s, c, i + 1)

\* the parts of s from index i on, cut at every c
RECURSIVE SplitFrom(_, _, _)
SplitFrom(s, c, i) ==
    Let(find(s, c, i),
        LAMBDA j : IF j = 0 THEN <<SubSeq(s, i, Len(s))>>
                   ELSE <<SubSeq(s, i, j - 1)>> \o SplitFrom(s, c, j + 1))

\* s.split(c): always at least one part
split(value, c) == Let(value, LAMBDA s : SplitFrom(s, c, 1))

(***************************************************************************)
(* Python objects                                                          *)
(***************************************************************************)
PyNone == [t |-> "NoneType", NoneType |-> 0]
Absent == [t |-> "absent", absent |-> 0]          \* a key that a dict does not hold
PyStr(s) == [t |-> "str", str |-> s]
PyInt(n) == [t |-> "int", int |-> n]
PyBool(b) == [t |-> "bool", bool |-> b]
PyList(q) == [t |-> "list", list |-> q]
PyDict(r) == [t |-> "dict", dict |-> r]

\* the payload of an object
V(x) == x[x.t]

\* the keys the loader reads; a dict is a record over them, Absent where the key
\* is missing.  extra: the confluence mapping holds keys other than the four.
EmptyConfluence ==
    [url |-> Absent, api_token |-> Absent, space_key |-> Absent, username |-> Absent,
     extra |-> PyBool(FALSE)]

EmptyData == [confluence |-> Absent, local_path |-> Absent, ignore_patterns |-> Absent]

HasKeys(r) ==
    \E f \in DOMAIN r : IF f = "extra" THEN V(r[f]) ELSE r[f].t # "absent"

\* bool(x)
Truthy(x) ==
    CASE x.t = "NoneType" -> FALSE
      [] x.t = "absent" -> FALSE
      [] x.t = "str" -> V(x) # ""
      [] x.t = "int" -> V(x) # 0
      [] x.t = "bool" -> V(x)
      [] x.t = "list" -> Len(V(x)) > 0
      [] x.t = "dict" -> HasKeys(V(x))
      [] OTHER -> TRUE

(***************************************************************************)
(* pathlib.Path (POSIX): the normal form of a path string                  *)
(***************************************************************************)
IsPathPart(p) == p # "" /\ p # "."

Path(s) ==
    [t |-> "Path",
     Path |-> [root |-> IF startswith(s, "/")
                     THEN (IF Len(s) >= 2 /\ Char(s, 2) = "/"
                              /\ ~(Len(s) >= 3 /\ Char(s, 3) = "/")
                           THEN "//" ELSE "/")
                     ELSE "",
            parts |-> SelectSeq(split(s, "/"), IsPathPart)]]

(***************************************************************************)
(* YAML documents (PyYAML, YAML 1.1)                                       *)
(***************************************************************************)
NoFile == [k |-> "nofile", nofile |-> 0]           \* config_path does not exist
EmptyDoc == [k |-> "empty", empty |-> 0]          \* an empty file
NoKey == [k |-> "nokey", nokey |-> 0]
Plain(s) == [k |-> "scalar", scalar |-> [style |-> "plain", text |-> s]]
Quoted(s) == [k |-> "scalar", scalar |-> [style |-> "quoted", text |-> s]]
SeqNode(q) == [k |-> "seq", seq |-> q]
MapNode(r) == [k |-> "map", map |-> r]

\* the content of a node
N(n) == n[n.k]

Digits == {"0", "1", "2", "3", "4", "5", "6", "7", "8", "9"}

DigitVal(c) ==
    CASE c = "0" -> 0 [] c = "1" -> 1 [] c = "2" -> 2 [] c = "3" -> 3 [] c = "4" -> 4
      [] c = "5" -> 5 [] c = "6" -> 6 [] c = "7" -> 7 [] c = "8" -> 8 [] c = "9" -> 9

AllDigits(s) == Len(s) > 0 /\ \A i \in 1..Len(s) : Char(s, i) \in Digits

\* the number that the first n digits of s write in the base
RECURSIVE NumValUpTo(_, _, _)
NumValUpTo(s, n, base) ==
    IF n = 0 THEN 0 ELSE NumValUpTo(s, n - 1, base) * base + DigitVal(Char(s, n))

NumVal(s, base) == NumValUpTo(s, Len(s), base)

YamlNull == {"", "~", "null", "Null", "NULL"}
YamlTrue == {"yes", "Yes", "YES", "true", "True", "TRUE", "on", "On", "ON"}
YamlFalse == {"no", "No", "NO", "false", "False", "FALSE", "off", "Off", "OFF"}

\* the implicit resolver on a plain scalar: null, bool, decimal and octal int, else
\* str (floats, hex, timestamps and the other YAML 1.1 forms need characters the
\* modelled documents do not use)
Resolve(s) ==
    IF s \in YamlNull THEN PyNone
    ELSE IF s \in YamlTrue THEN PyBool(TRUE)
    ELSE IF s \in YamlFalse THEN PyBool(FALSE)
    ELSE IF AllDigits(s) /\ (Len(s) = 1 \/ Char(s, 1) # "0") THEN PyInt(NumVal(s, 10))
    ELSE IF AllDigits(s) /\ \A i \in 1..Len(s) : Char(s, i) \notin {"8", "9"}
         THEN PyInt(NumVal(s, 8))
    ELSE PyStr(s)

\* yaml.safe_load of a document
RECURSIVE safe_load(_)
safe_load(n) ==
    CASE n.k = "empty" -> PyNone
      [] n.k = "scalar" -> IF N(n).style = "plain" THEN Resolve(N(n).text) ELSE PyStr(N(n).text)
      [] n.k = "seq" -> PyList([i \in 1..Len(N(n)) |-> safe_load(N(n)[i])])
      [] n.k = "map" ->
            PyDict([f \in DOMAIN N(n) |->
                    IF f = "extra" THEN PyBool(N(n)[f])
                    ELSE IF N(n)[f].k = "nokey" THEN Absent ELSE safe_load(N(n)[f])])

\* the emitter's analysis of a scalar: may it be written plain in block context
\* (the grave accent, also an indicator, cannot be written in a TLA+ string)
FirstIndicators == {"#", ",", "[", "]", "{", "}", "&", "*", "!", "|", ">", "'", "\"", "%", "@"}

BlockPlainAllowed(s) ==
    /\ Len(s) > 0
    /\ ~IsSpace(Char(s, 1))
    /\ ~IsSpace(Char(s, Len(s)))
    /\ Char(s, 1) \notin FirstIndicators
    /\ ~(Char(s, 1) \in {"?", ":", "-"} /\ (Len(s) = 1 \/ IsSpace(Char(s, 2))))
    /\ \A i \in 2..Len(s) :
          /\ ~(Char(s, i) = ":" /\ (i = Len(s) \/ IsSpace(Char(s, i + 1))))
          /\ ~(Char(s, i) = "#" /\ IsSpace(Char(s, i - 1)))
          /\ Char(s, i) \notin {"\n", "\t"}

\* a str is written plain only when the plain text would be read back as a str
AlwaysPlain(s) == Plain(s)

DumpStr(s) ==
    IF BlockPlainAllowed(s) /\ Resolve(s).t = "str" THEN Plain(s) ELSE Quoted(s)

\* yaml.dump of a dict / list / str object, default_flow_style=False
RECURSIVE dump(_)
dump(x) ==
    CASE x.t = "str" -> DumpStr(V(x))
      [] x.t = "list" -> SeqNode([i \in 1..Len(V(x)) |-> dump(V(x)[i])])
      [] x.t = "dict" ->
            MapNode([f \in DOMAIN V(x) |->
                       IF f = "extra" THEN V(V(x)[f])
                       ELSE IF V(x)[f].t = "absent" THEN NoKey ELSE dump(V(x)[f])])
      [] x.t = "NoneType" -> Plain("null")

(***************************************************************************)
(* Outcomes: a returned value, or the exception raised and where.          *)
(*   ValueError at "load" is the format error of line 46, ValidationError  *)
(*   is pydantic's, with the locations of the offending fields.            *)
(***************************************************************************)
Ok(x) == [kind |-> "ok", val |-> x, at |-> "", fields |-> {}]
Raise(kind, at) == [kind |-> kind, val |-> PyNone, at |-> at, fields |-> {}]
RaiseValidation(fields) ==
    [kind |-> "ValidationError", val |-> PyNone, at |-> "SyncConfig", fields |-> fields]

(***************************************************************************)
(* json.loads, for the texts the loader hands it: arrays, strings without  *)
(* escapes, the literals and unsigned integers.  Any other token (objects, *)
(* floats, signs) is reported as a decode error.                           *)
(***************************************************************************)
JsonWs == {" ", "\t", "\n"}

RECURSIVE SkipWs(_, _)
SkipWs(s, i) == IF i <= Len(s) /\ Char(s, i) \in JsonWs THEN SkipWs(s, i + 1) ELSE i

RECURSIVE DigitsEnd(_, _)
DigitsEnd(s, i) == IF i <= Len(s) /\ Char(s, i) \in Digits THEN DigitsEnd(s, i + 1) ELSE i

JsonFail == [ok |-> FALSE, val |-> PyNone, next |-> 0]
JsonOk(x, next) == [ok |-> TRUE, val |-> x, next |-> next]

RECURSIVE JsonValue(_, _)
RECURSIVE JsonItems(_, _, _)
JsonValue(s, i) ==
    IF i > Len(s) THEN JsonFail
    ELSE Let(Char(s, i),
             LAMBDA c :
               CASE c = "\"" ->
                      Let(find(s, "\"", i + 1),
                          LAMBDA j :
                            IF j = 0 \/ \E m \in (i + 1)..(j - 1) :
                                            Char(s, m) \in {"\n", "\t", "\\"}
                            THEN JsonFail
                            ELSE JsonOk(PyStr(SubSeq(s, i + 1, j - 1)), j + 1))
                 [] c = "[" ->
                      Let(SkipWs(s, i + 1),
                          LAMBDA j :
                            IF j <= Len(s) /\ Char(s, j) = "]" THEN JsonOk(PyList(<<>>), j + 1)
                            ELSE JsonItems(s, j, <<>>))
                 [] c \in Digits ->
                      IF c = "0" THEN JsonOk(PyInt(0), i + 1)
                      ELSE Let(DigitsEnd(s, i),
                               LAMBDA j : JsonOk(PyInt(NumVal(SubSeq(s, i, j - 1), 10)), j))
                 [] i + 3 <= Len(s) /\ SubSeq(s, i, i + 3) = "null" -> JsonOk(PyNone, i + 4)
                 [] i + 3 <= Len(s) /\ SubSeq(s, i, i + 3) = "true" -> JsonOk(PyBool(TRUE), i + 4)
                 [] i + 4 <= Len(s) /\ SubSeq(s, i, i + 4) = "false" -> JsonOk(PyBool(FALSE), i + 5)
                 [] OTHER -> JsonFail)

\* the items of an array from position i (after "[" and white space), acc read so far
JsonItems(s, i, acc) ==
    Let(JsonValue(s, i),
        LAMBDA item :
          IF ~item.ok THEN JsonFail
          ELSE Let(SkipWs(s, item.next),
                   LAMBDA j :
                     IF j > Len(s) THEN JsonFail
                     ELSE IF Char(s, j) = "]" THEN JsonOk(PyList(Append(acc, item.val)), j + 1)
                     ELSE IF Char(s, j) = ","
                     THEN Let(<<SkipWs(s, j + 1), Append(acc, item.val)>>,
                              LAMBDA n : JsonItems(s, n[1], n[2]))
                     ELSE JsonFail))

json_loads(text) ==
    Let(text,
        LAMBDA s :
          Let(JsonValue(s, SkipWs(s, 1)),
              LAMBDA r : IF r.ok /\ SkipWs(s, r.next) = Len(s) + 1 THEN Ok(r.val)
                         ELSE Raise("JSONDecodeError", "_parse_ignore_patterns")))

(***************************************************************************)
(* The environment                                                         *)
(***************************************************************************)
EnvNames ==
    {"CONFLUENCE_URL", "CONFLUENCE_API_TOKEN", "CONFLUENCE_SPACE_KEY",
     "CONFLUENCE_USERNAME", "LOCAL_PATH", "IGNORE_PATTERNS"}

Unset == [set |-> FALSE, value |-> ""]
SetTo(s) == [set |-> TRUE, value |-> s]
NoEnv == [n \in EnvNames |-> Unset]

\* os.getenv(name)
getenv(e, name) == IF e[name].set THEN PyStr(e[name].value) ELSE PyNone

\* load_dotenv(): the variables of .env that the environment does not hold are
\* added to it; without the dotenv package the import fails and nothing happens
load_dotenv(e, d) ==
    IF d.installed
    THEN [n \in EnvNames |-> IF e[n].set THEN e[n] ELSE d.vars[n]]
    ELSE e

_get_env(e, name) ==
    Let(getenv(e, name),
        LAMBDA value :
          IF value.t = "NoneType" THEN PyNone
          ELSE Let(strip(V(value)),
                   LAMBDA stripped : IF stripped # "" THEN PyStr(stripped) ELSE PyNone))

(***************************************************************************)
(* _parse_ignore_patterns                                                  *)
(***************************************************************************)
StripAll(q) == [i \in 1..Len(q) |-> strip(q[i])]

NonEmpty(s) == s # ""

StrList(q) == [i \in 1..Len(q) |-> PyStr(q[i])]

Texts(q) == [i \in 1..Len(q) |-> V(q[i])]

IsListOfStr(x) == x.t = "list" /\ \A i \in 1..Len(V(x)) : V(x)[i].t = "str"

CommaOnly(value) ==
    Let(StripAll(split(strip(value), ",")),
        LAMBDA parts : Ok(PyList(StrList(SelectSeq(parts, NonEmpty)))))

_parse_ignore_patterns(value) ==
    Let(strip(value),
        LAMBDA raw :
          IF startswith(raw, "[")
          THEN Let(json_loads(raw),
                   LAMBDA parsed :
                     IF parsed.kind # "ok" THEN parsed
                     ELSE IF ~IsListOfStr(parsed.val)
                     THEN Raise("ValueError", "_parse_ignore_patterns")
                     ELSE Let(StripAll(Texts(V(parsed.val))),
                              LAMBDA xs : Ok(PyList(StrList(SelectSeq(xs, NonEmpty))))))
          ELSE Let(StripAll(split(raw, ",")),
                   LAMBDA parts : Ok(PyList(StrList(SelectSeq(parts, NonEmpty))))))

(***************************************************************************)
(* _overlay_env                                                            *)
(***************************************************************************)
ConfluenceKeys == {"url", "api_token", "space_key", "username"}

\* dict(pairs): every element must be a sequence of two items, key and value
RECURSIVE FromPairs(_, _)
FromPairs(q, acc) ==
    IF q = <<>> THEN Ok(PyDict(acc))
    ELSE LET el == Head(q)
         IN  IF el.t \notin {"str", "list"} THEN Raise("TypeError", "_overlay_env")
             ELSE IF Len(V(el)) # 2 THEN Raise("ValueError", "_overlay_env")
             ELSE LET key == IF el.t = "str" THEN PyStr(Char(V(el), 1)) ELSE V(el)[1]
                      val == IF el.t = "str" THEN PyStr(Char(V(el), 2)) ELSE V(el)[2]
                  IN  IF key.t \in {"list", "dict"} THEN Raise("TypeError", "_overlay_env")
                      ELSE IF key.t = "str" /\ V(key) \in ConfluenceKeys
                      THEN FromPairs(Tail(q), [acc EXCEPT ![V(key)] = val])
                      ELSE FromPairs(Tail(q), [acc EXCEPT !.extra = PyBool(TRUE)])

\* dict(x) of line 58, x truthy: a dict is copied, a list is read as pairs, a str
\* yields one-character elements (ValueError), a number is not iterable (TypeError)
dict_of(x) ==
    CASE x.t = "dict" -> Ok(x)
      [] x.t = "list" -> FromPairs(V(x), EmptyConfluence)
      [] x.t = "str" -> Raise("ValueError", "_overlay_env")
      [] OTHER -> Raise("TypeError", "_overlay_env")

SetKey(d, key, value) == IF value.t # "NoneType" THEN [d EXCEPT ![key] = value] ELSE d

FileWins(config_data, e) ==
    LET raw == config_data.confluence
        copied == dict_of(IF Truthy(raw) THEN raw ELSE PyDict(EmptyConfluence))
        OrEnv(d, key, value) == IF d[key].t = "absent" THEN SetKey(d, key, value) ELSE d
    IN  IF copied.kind # "ok" THEN copied
        ELSE LET c1 == OrEnv(V(copied.val), "url", _get_env(e, "CONFLUENCE_URL"))
                 c2 == OrEnv(c1, "api_token", _get_env(e, "CONFLUENCE_API_TOKEN"))
                 c3 == OrEnv(c2, "space_key", _get_env(e, "CONFLUENCE_SPACE_KEY"))
                 confluence == OrEnv(c3, "username", _get_env(e, "CONFLUENCE_USERNAME"))
                 out1 == IF HasKeys(confluence)
                         THEN [config_data EXCEPT !.confluence = PyDict(confluence)]
                         ELSE config_data
                 out2 == OrEnv(out1, "local_path", _get_env(e, "LOCAL_PATH"))
                 ignore_patterns_raw == _get_env(e, "IGNORE_PATTERNS")
             IN  IF ignore_patterns_raw.t = "NoneType" \/ out2.ignore_patterns.t # "absent"
                 THEN Ok(PyDict(out2))
                 ELSE LET parsed == _parse_ignore_patterns(V(ignore_patterns_raw))
                      IN  IF parsed.kind # "ok" THEN parsed
                          ELSE Ok(PyDict([out2 EXCEPT !.ignore_patterns = parsed.val]))

_overlay_env(config_data, e) ==
    LET raw == config_data.confluence
        copied == dict_of(IF Truthy(raw) THEN raw ELSE PyDict(EmptyConfluence))
    IN  IF copied.kind # "ok" THEN copied
        ELSE LET c1 == SetKey(V(copied.val), "url", _get_env(e, "CONFLUENCE_URL"))
                 c2 == SetKey(c1, "api_token", _get_env(e, "CONFLUENCE_API_TOKEN"))
                 c3 == SetKey(c2, "space_key", _get_env(e, "CONFLUENCE_SPACE_KEY"))
                 confluence == SetKey(c3, "username", _get_env(e, "CONFLUENCE_USERNAME"))
                 out1 == IF HasKeys(confluence)
                         THEN [config_data EXCEPT !.confluence = PyDict(confluence)]
                         ELSE config_data
                 out2 == SetKey(out1, "local_path", _get_env(e, "LOCAL_PATH"))
                 ignore_patterns_raw == _get_env(e, "IGNORE_PATTERNS")
             IN  IF ignore_patterns_raw.t = "NoneType" THEN Ok(PyDict(out2))
                 ELSE LET parsed == _parse_ignore_patterns(V(ignore_patterns_raw))
                      IN  IF parsed.kind # "ok" THEN parsed
                          ELSE Ok(PyDict([out2 EXCEPT !.ignore_patterns = parsed.val]))

(***************************************************************************)
(* The SyncConfig constructor: pydantic validation.  A str field takes a  *)
(* str only (pydantic 2; the documents modelled put no number or boolean   *)
(* where a str is expected, which pydantic 1 would convert), Path takes a  *)
(* str, list[str] a list of str.  Every offending location is reported.    *)
(***************************************************************************)
RequiredKeys == {"url", "api_token", "space_key"}

ConfluenceErrors(c) ==
    IF c.t # "dict" THEN {"confluence"}
    ELSE {"confluence." \o f : f \in {g \in RequiredKeys : V(c)[g].t # "str"}}
         \cup (IF V(c).username.t \notin {"absent", "NoneType", "str"}
               THEN {"confluence.username"} ELSE {})

LocalPathErrors(x) == IF x.t \in {"absent", "str"} THEN {} ELSE {"local_path"}

IgnorePatternsErrors(x) ==
    IF x.t = "absent" THEN {}
    ELSE IF IsListOfStr(x) THEN {}
    ELSE {"ignore_patterns"}

ConfluenceConfig(c) ==
    [url |-> c.url, api_token |-> c.api_token, space_key |-> c.space_key,
     username |-> IF c.username.t = "absent" THEN PyNone ELSE c.username]

SyncConfig(config_data) ==
    LET errors == ConfluenceErrors(config_data.confluence)
                  \cup LocalPathErrors(config_data.local_path)
                  \cup IgnorePatternsErrors(config_data.ignore_patterns)
    IN  IF errors # {} THEN RaiseValidation(errors)
        ELSE Ok([t |-> "SyncConfig",
                 SyncConfig |-> [confluence |-> ConfluenceConfig(V(config_data.confluence)),
                        local_path |-> IF config_data.local_path.t = "absent"
                                       THEN Path("docs")
                                       ELSE Path(V(config_data.local_path)),
                        ignore_patterns |-> IF config_data.ignore_patterns.t = "absent"
                                            THEN PyList(<<>>)
                                            ELSE config_data.ignore_patterns]])

(***************************************************************************)
(* load(): lines 39-47 read the file, then overlay, then validate          *)
(***************************************************************************)
DropLoaded(f) ==
    IF f.k = "nofile" THEN Ok(PyDict(EmptyData))
    ELSE LET loaded == safe_load(f)
         IN  IF Truthy(loaded) /\ loaded.t # "dict" THEN Raise("ValueError", "load")
             ELSE Ok(PyDict(EmptyData))

ReadFile(f) ==
    IF f.k = "nofile" THEN Ok(PyDict(EmptyData))
    ELSE LET loaded == safe_load(f)
         IN  IF Truthy(loaded)
             THEN (IF loaded.t # "dict" THEN Raise("ValueError", "load") ELSE Ok(loaded))
             ELSE Ok(PyDict(EmptyData))

\* the outcome of load() and the environment it leaves
load(f, e, d) ==
    LET e2 == load_dotenv(e, d)
        config_data == ReadFile(f)
        merged == IF config_data.kind = "ok" THEN _overlay_env(V(config_data.val), e2)
                  ELSE config_data
    IN  [res |-> IF merged.kind = "ok" THEN SyncConfig(V(merged.val)) ELSE merged,
         environ |-> e2]

(***************************************************************************)
(* save_template, save_interactive_config                                  *)
(***************************************************************************)
TemplateWithInteractivePatterns ==
    PyDict([confluence |->
               PyDict([url |-> PyStr("https://your-domain.atlassian.net"),
                       api_token |-> PyStr("your-api-token"),
                       space_key |-> PyStr("YOUR_SPACE_KEY"),
                       username |-> Absent,
                       extra |-> PyBool(FALSE)]),
            local_path |-> PyStr("docs"),
            ignore_patterns |-> PyList(<<PyStr("*.tmp"), PyStr(".git/*"), PyStr(".DS_Store")>>)])

template ==
    PyDict([confluence |->
               PyDict([url |-> PyStr("https://your-domain.atlassian.net"),
                       api_token |-> PyStr("your-api-token"),
                       space_key |-> PyStr("YOUR_SPACE_KEY"),
                       username |-> Absent,
                       extra |-> PyBool(FALSE)]),
            local_path |-> PyStr("docs"),
            ignore_patterns |-> PyList(<<PyStr("*.tmp"), PyStr(".git/*")>>)])

\* the arguments of save_interactive_config: four str and username, a str or None
NoArgs == [t |-> "none", none |-> 0]
Args(url, api_token, space_key, local_path, username) ==
    [t |-> "args",
     args |-> [url |-> url, api_token |-> api_token, space_key |-> space_key,
            local_path |-> local_path, username |-> username]]

interactive_config_data(a) ==
    PyDict([confluence |->
               PyDict([url |-> PyStr(a.url),
                       api_token |-> PyStr(a.api_token),
                       space_key |-> PyStr(a.space_key),
                       username |-> IF Truthy(a.username) THEN a.username ELSE Absent,
                       extra |-> PyBool(FALSE)]),
            local_path |-> PyStr(a.local_path),
            ignore_patterns |-> PyList(<<PyStr("*.tmp"), PyStr(".git/*"), PyStr(".DS_Store")>>)])

(***************************************************************************)
(* The loader's operations as actions.  last records the most recent       *)
(* operation: its name, the operation before it, its outcome, the          *)
(* arguments of the save_interactive_config it follows, and how many       *)
(* times it ran load().                                                    *)
(***************************************************************************)
InitLast == [op |-> "init", after |-> "init", res |-> Ok(PyNone), arg |-> NoArgs, loads |-> 0]

NoProbe == [pats |-> <<>>, comma |-> Raise("NotRun", ""), json |-> Raise("NotRun", "")]

ClearOnFailure(old, res) == IF res.kind = "ok" THEN res.val ELSE PyNone

\* line 50: the assignment happens only when the constructor returns
Assign(old, res) == IF res.kind = "ok" THEN res.val ELSE old

Load ==
    LET r == load(file, environ, dotenv)
    IN  /\ environ' = r.environ
        /\ _config' = Assign(_config, r.res)
        /\ last' = [op |-> "load", after |-> last.op, res |-> r.res, arg |-> last.arg,
                    loads |-> 1]
        /\ UNCHANGED <<file, dotenv, probe>>

AlwaysReload(c) == TRUE

\* line 154
NeedsLoad(c) == c.t = "NoneType"

\* the config property
Config ==
    IF NeedsLoad(_config)
    THEN LET r == load(file, environ, dotenv)
         IN  /\ environ' = r.environ
             /\ _config' = Assign(_config, r.res)
             /\ last' = [op |-> "config", after |-> last.op, res |-> r.res,
                         arg |-> last.arg, loads |-> 1]
             /\ UNCHANGED <<file, dotenv, probe>>
    ELSE /\ last' = [op |-> "config", after |-> last.op, res |-> Ok(_config),
                     arg |-> last.arg, loads |-> 0]
         /\ UNCHANGED <<file, environ, dotenv, _config, probe>>

SaveTemplate ==
    /\ file' = dump(template)
    /\ last' = [op |-> "save_template", after |-> last.op, res |-> Ok(PyNone),
                arg |-> NoArgs, loads |-> 0]
    /\ UNCHANGED <<environ, dotenv, _config, probe>>

SaveInteractiveConfig(ArgSet) ==
    \E a \in ArgSet :
        /\ file' = dump(interactive_config_data(V(a)))
        /\ last' = [op |-> "save_interactive_config", after |-> last.op, res |-> Ok(PyNone),
                    arg |-> a, loads |-> 0]
        /\ UNCHANGED <<environ, dotenv, _config, probe>>

\* the world outside the loader: the file is edited or removed, a variable is set
\* or unset
WriteFile(Docs) ==
    \E doc \in Docs :
        /\ doc # file
        /\ file' = doc
        /\ last' = [op |-> "write_file", after |-> last.op, res |-> Ok(PyNone),
                    arg |-> NoArgs, loads |-> 0]
        /\ UNCHANGED <<environ, dotenv, _config, probe>>

SetEnv(Choices) ==
    \E c \in Choices :
        /\ environ[c[1]] # c[2]
        /\ environ' = [environ EXCEPT ![c[1]] = c[2]]
        /\ last' = [op |-> "setenv", after |-> last.op, res |-> Ok(PyNone),
                    arg |-> NoArgs, loads |-> 0]
        /\ UNCHANGED <<file, dotenv, _config, probe>>

(***************************************************************************)
(* SpecLoad: one load() on every file, environment and .env of the sets    *)
(* below                                                                   *)
(***************************************************************************)
Conf(url, api_token, space_key, username) ==
    MapNode([url |-> url, api_token |-> api_token, space_key |-> space_key,
             username |-> username, extra |-> FALSE])

Top(confluence, local_path, ignore_patterns) ==
    MapNode([confluence |-> confluence, local_path |-> local_path,
             ignore_patterns |-> ignore_patterns])

LoadConfluences ==
    {Conf(u, t, k, NoKey) : u \in {NoKey, Plain("u"), Quoted("")},
                            t \in {NoKey, Plain("t")},
                            k \in {Plain("k"), Plain("~")}}
    \cup {NoKey, Quoted(""), Plain("abc"), SeqNode(<<Plain("ab")>>),
          Conf(Plain("u"), Plain("t"), Plain("k"), Plain("me")),
          Conf(NoKey, Plain("t"), NoKey, Plain("~")),
          Conf(Plain("u"), Plain("t"), Plain("k"), SeqNode(<<>>)),
          Conf(Plain("u"), SeqNode(<<Plain("t")>>), Plain("k"), Plain("me"))}

LoadLocals ==
    {<<NoKey, NoKey>>,
     <<Plain("./out//md/"), SeqNode(<<Quoted("*.tmp"), Quoted(" x "), Quoted("")>>)>>,
     <<Plain("docs"), Plain("~")>>,
     <<NoKey, Quoted("*.tmp")>>,
     <<Plain("~"), SeqNode(<<>>)>>}

NonMappings ==
    {SeqNode(<<>>), SeqNode(<<Plain("a")>>), Plain("0"), Plain("7"), Plain("no"),
     Plain("on"), Quoted(""), Plain("abc")}

LoadFiles ==
    {Top(c, l[1], l[2]) : c \in LoadConfluences, l \in LoadLocals}
    \cup NonMappings \cup {NoFile, EmptyDoc}

LoadEnvs ==
    {[CONFLUENCE_URL |-> u, CONFLUENCE_API_TOKEN |-> t, CONFLUENCE_SPACE_KEY |-> k,
      CONFLUENCE_USERNAME |-> n, LOCAL_PATH |-> l, IGNORE_PATTERNS |-> i] :
        u \in {Unset, SetTo(""), SetTo(" eu ")},
        t \in {Unset, SetTo("et")},
        k \in {Unset, SetTo("ek")},
        n \in {Unset, SetTo("\ten")},
        l \in {Unset, SetTo(" /p//q/ ")},
        i \in {Unset, SetTo(" "), SetTo(" a , ,b "), SetTo(" [\" a\", \"\", \"b \"] "),
               SetTo("[1]"), SetTo("[\"a\"")}}

DotenvVars == [NoEnv EXCEPT !["CONFLUENCE_USERNAME"] = SetTo("dn"),
                            !["CONFLUENCE_API_TOKEN"] = SetTo("dt")]

LoadDotenvs == {[installed |-> b, vars |-> DotenvVars] : b \in BOOLEAN}

InitLoad ==
    /\ file \in LoadFiles
    /\ environ \in LoadEnvs
    /\ dotenv \in LoadDotenvs
    /\ _config = PyNone
    /\ last = InitLast
    /\ probe = NoProbe

NextLoad == last.op = "init" /\ Load

SpecLoad == InitLoad /\ [][NextLoad]_vars

(***************************************************************************)
(* What the claims speak of                                                *)
(***************************************************************************)
Loaded == last.op = "load" /\ last.res.kind = "ok"
cfg == V(last.res.val)

\* a variable is given when it is set to a value that is not blank
EnvGiven(name) == environ[name].set /\ strip(environ[name].value) # ""
EnvText(name) == strip(environ[name].value)
NoneSet == \A name \in EnvNames : ~environ[name].set

\* what the file holds, key by key
FileObject == IF file.k = "nofile" THEN PyNone ELSE safe_load(file)
FileData == IF FileObject.t = "dict" THEN V(FileObject) ELSE EmptyData
FileConfluence ==
    IF FileData.confluence.t = "dict" THEN V(FileData.confluence) ELSE EmptyConfluence
FileUsername ==
    IF FileConfluence.username.t = "absent" THEN PyNone ELSE FileConfluence.username
FileLocalPath ==
    IF FileData.local_path.t = "str" THEN Path(V(FileData.local_path)) ELSE Path("docs")
FileIgnorePatterns ==
    IF FileData.ignore_patterns.t = "absent" THEN PyList(<<>>) ELSE FileData.ignore_patterns

EnvVar ==
    [url |-> "CONFLUENCE_URL", api_token |-> "CONFLUENCE_API_TOKEN",
     space_key |-> "CONFLUENCE_SPACE_KEY", username |-> "CONFLUENCE_USERNAME"]

\* C1: after a successful load() every field is the trimmed value of its
\* environment variable when that variable is given (set and not blank), and the
\* file's value (or the default) when it is not, whatever the other variables are.
C1_OverlayPrecedence ==
    Loaded =>
        /\ \A f \in RequiredKeys :
              cfg.confluence[f] = IF EnvGiven(EnvVar[f]) THEN PyStr(EnvText(EnvVar[f]))
                                  ELSE FileConfluence[f]
        /\ cfg.confluence.username = IF EnvGiven("CONFLUENCE_USERNAME")
                                     THEN PyStr(EnvText("CONFLUENCE_USERNAME"))
                                     ELSE FileUsername
        /\ cfg.local_path = IF EnvGiven("LOCAL_PATH") THEN Path(EnvText("LOCAL_PATH"))
                            ELSE FileLocalPath
        /\ cfg.ignore_patterns = IF EnvGiven("IGNORE_PATTERNS")
                                 THEN _parse_ignore_patterns(EnvText("IGNORE_PATTERNS")).val
                                 ELSE FileIgnorePatterns

\* the url of the file is overridden while a blank IGNORE_PATTERNS leaves the
\* file's patterns in place
C1_Witness ==
    /\ Loaded
    /\ EnvGiven("CONFLUENCE_URL")
    /\ FileConfluence.url.t = "str"
    /\ cfg.confluence.url # FileConfluence.url
    /\ environ["IGNORE_PATTERNS"].set
    /\ ~EnvGiven("IGNORE_PATTERNS")
    /\ Len(V(cfg.ignore_patterns)) > 0
    /\ ~environ["LOCAL_PATH"].set
    /\ cfg.local_path # Path("docs")

MissingOrEmpty(x) == x.t \in {"absent", "NoneType"} \/ (x.t = "str" /\ V(x) = "")

Offending ==
    {f \in RequiredKeys : MissingOrEmpty(FileConfluence[f]) /\ ~EnvGiven(EnvVar[f])}

\* C2: load() returns settings only if url, api_token and space_key are present
\* and non-empty after the merge; when one is missing or empty in the file and in
\* the environment, load() fails, and the validation error names each such field
\* (the field itself or the confluence mapping that should hold it).
C2_RequiredNonEmpty ==
    last.op = "load" =>
        /\ last.res.kind = "ok" =>
              \A f \in RequiredKeys : cfg.confluence[f].t = "str" /\ V(cfg.confluence[f]) # ""
        /\ Offending # {} =>
              /\ last.res.kind # "ok"
              /\ last.res.kind = "ValidationError" =>
                    \A f \in Offending :
                        last.res.fields \cap {"confluence", "confluence." \o f} # {}

\* C3: when the file exists and parses to a list or a scalar (string, number,
\* boolean), load() fails with the format error, whatever the environment is.
C3_NonMappingRejected ==
    (last.op = "load" /\ FileObject.t \in {"list", "str", "int", "bool"}) =>
        (last.res.kind = "ValueError" /\ last.res.at = "load")

FieldsMatchFile ==
    /\ \A f \in RequiredKeys : cfg.confluence[f] = FileConfluence[f]
    /\ cfg.confluence.username = FileUsername
    /\ cfg.local_path = FileLocalPath
    /\ cfg.ignore_patterns = FileIgnorePatterns

Present(x) == x.t \notin {"absent", "NoneType"}

RequiredPresent ==
    /\ FileObject.t = "dict"
    /\ FileData.confluence.t = "dict"
    /\ \A f \in RequiredKeys : Present(FileConfluence[f])

WellTyped ==
    /\ FileObject.t = "dict"
    /\ FileData.confluence.t = "dict"
    /\ \A f \in RequiredKeys : FileConfluence[f].t = "str"
    /\ FileConfluence.username.t \in {"absent", "NoneType", "str"}
    /\ FileData.local_path.t \in {"absent", "str"}
    /\ \/ FileData.ignore_patterns.t = "absent"
       \/ /\ FileData.ignore_patterns.t = "list"
          /\ \A i \in 1..Len(V(FileData.ignore_patterns)) :
                V(FileData.ignore_patterns)[i].t = "str"

CleanEntries(patterns) ==
    \A i \in 1..Len(V(patterns)) :
        /\ patterns.t = "list"
        /\ V(patterns)[i].t = "str"
        /\ V(V(patterns)[i]) # ""
        /\ strip(V(V(patterns)[i])) = V(V(patterns)[i])

\* C9: after a successful load() every entry of ignore_patterns is a non-empty
\* string without surrounding white space, whether it was read from the file or
\* from IGNORE_PATTERNS.
C9_AsStated == Loaded => CleanEntries(cfg.ignore_patterns)

(***************************************************************************)
(* SpecPatterns: a list of patterns is given to load() through              *)
(* IGNORE_PATTERNS in its comma-separated form and in its JSON-array form   *)
(***************************************************************************)
MaxPatterns == 2

\* pattern strings: empty, blank, padded, and ones that hold a bracket; no comma
Patterns == {"", " ", "a", " a", "a ", "b c", "[", "[a", "a["}

RECURSIVE ListsUpTo(_, _)
ListsUpTo(n, S) ==
    IF n = 0 THEN {<<>>}
    ELSE LET shorter == ListsUpTo(n - 1, S)
         IN  shorter \cup {Append(q, s) : q \in shorter, s \in S}

PatternLists == ListsUpTo(MaxPatterns, Patterns)

\* ",".join(pats)
RECURSIVE JoinComma(_)
JoinComma(q) ==
    IF q = <<>> THEN ""
    ELSE IF Len(q) = 1 THEN Head(q)
    ELSE Head(q) \o "," \o JoinComma(Tail(q))

\* json.dumps(pats), for entries that need no escape
RECURSIVE JsonEntries(_)
JsonEntries(q) ==
    IF q = <<>> THEN ""
    ELSE IF Len(q) = 1 THEN "\"" \o Head(q) \o "\""
    ELSE "\"" \o Head(q) \o "\", " \o JsonEntries(Tail(q))

json_dumps(q) == "[" \o JsonEntries(q) \o "]"

PatternsFile ==
    Top(Conf(Plain("u"), Plain("t"), Plain("k"), NoKey), NoKey, SeqNode(<<Plain("f")>>))

InitPatterns ==
    /\ file = PatternsFile
    /\ environ = NoEnv
    /\ dotenv \in LoadDotenvs
    /\ _config = PyNone
    /\ last = InitLast
    /\ probe \in {[NoProbe EXCEPT !.pats = q] : q \in PatternLists}

LoadWith(text, form) ==
    LET r == load(file, [environ EXCEPT !["IGNORE_PATTERNS"] = SetTo(text)], dotenv)
    IN  /\ probe[form].kind = "NotRun"
        /\ environ' = r.environ
        /\ _config' = Assign(_config, r.res)
        /\ last' = [op |-> "load", after |-> last.op, res |-> r.res, arg |-> last.arg,
                    loads |-> 1]
        /\ probe' = [probe EXCEPT ![form] = r.res]
        /\ UNCHANGED <<file, dotenv>>

LoadCommaForm == LoadWith(JoinComma(probe.pats), "comma")

LoadJsonForm == LoadWith(json_dumps(probe.pats), "json")

NextPatterns == LoadCommaForm \/ LoadJsonForm

SpecPatterns == InitPatterns /\ [][NextPatterns]_vars

BothRun == probe.comma.kind # "NotRun" /\ probe.json.kind # "NotRun"

ExpectedPatterns == PyList(StrList(SelectSeq(StripAll(probe.pats), NonEmpty)))

BothGive(patterns) ==
    /\ probe.comma.kind = "ok"
    /\ probe.json.kind = "ok"
    /\ V(probe.comma.val).ignore_patterns = patterns
    /\ V(probe.json.val).ignore_patterns = patterns

\* C5 as stated: for every list of comma-free patterns, the comma-separated form
\* and the JSON-array form both make load() succeed with the entries trimmed, the
\* empty ones dropped, in order.
C5_AsStated == BothRun => BothGive(ExpectedPatterns)

CommaFormUsable ==
    /\ strip(JoinComma(probe.pats)) # ""
    /\ ~startswith(strip(JoinComma(probe.pats)), "[")

\* C5 amended: this holds when the comma-separated form, once trimmed, is not
\* empty (an empty one counts as unset and leaves the file's patterns) and does
\* not begin with "[" (which selects the JSON parser).
C5_FormsAgree == (BothRun /\ CommaFormUsable) => BothGive(ExpectedPatterns)

\* two entries, one padded, after an empty or blank one was dropped
C5_Witness ==
    /\ BothRun
    /\ CommaFormUsable
    /\ BothGive(ExpectedPatterns)
    /\ Len(probe.pats) = 2
    /\ Len(V(ExpectedPatterns)) = 1
    /\ probe.pats[2] # V(V(ExpectedPatterns)[1])
    /\ probe.pats[1] # V(V(ExpectedPatterns)[1])

(***************************************************************************)
(* SpecSave: one save, then one load(), over any earlier file               *)
(***************************************************************************)
SaveArgs ==
    {Args(u, t, k, l, n) : u \in {"u", "1", " "},
                           t \in {"t", "null"},
                           k \in {"k", "NO"},
                           l \in {"docs", "a//b/", "#x"},
                           n \in {PyNone, PyStr(""), PyStr("me"), PyStr("~")}}

SaveFiles ==
    {NoFile, SeqNode(<<Plain("a")>>),
     Top(Conf(Plain("u0"), Plain("t0"), Plain("k0"), Plain("n0")), Plain("p0"),
         SeqNode(<<Plain("i0")>>))}

SaveEnvs == {NoEnv, [NoEnv EXCEPT !["CONFLUENCE_URL"] = SetTo("eu")]}

InitSave ==
    /\ file \in SaveFiles
    /\ environ \in SaveEnvs
    /\ dotenv \in LoadDotenvs
    /\ _config = PyNone
    /\ last = InitLast
    /\ probe = NoProbe

NextSave ==
    \/ last.op = "init" /\ SaveTemplate
    \/ last.op = "init" /\ SaveInteractiveConfig(SaveArgs)
    \/ last.op \in {"save_template", "save_interactive_config"} /\ Load

SpecSave == InitSave /\ [][NextSave]_vars

\* C6 as stated: save_template() then load() with no variable set fails
\* validation.
C6_AsStated ==
    (last.op = "load" /\ last.after = "save_template" /\ NoneSet) =>
        last.res.kind = "ValidationError"

\* C6 amended: save_template() then load() with no variable set succeeds, and the
\* settings are exactly the placeholders of the template.
C6_TemplateLoads ==
    (last.op = "load" /\ last.after = "save_template" /\ NoneSet) =>
        /\ last.res.kind = "ok"
        /\ cfg.confluence = [url |-> PyStr("https://your-domain.atlassian.net"),
                             api_token |-> PyStr("your-api-token"),
                             space_key |-> PyStr("YOUR_SPACE_KEY"),
                             username |-> PyNone]
        /\ cfg.local_path = Path("docs")
        /\ cfg.ignore_patterns = PyList(<<PyStr("*.tmp"), PyStr(".git/*")>>)

C6_Witness ==
    /\ last.op = "load"
    /\ last.after = "save_template"
    /\ NoneSet
    /\ last.res.kind = "ok"
    /\ file = dump(template)

\* C10: save_interactive_config(url, api_token, space_key, local_path, username)
\* then load() with no variable set succeeds with those four values (local_path
\* as a Path), the username when it is truthy and None otherwise, and the three
\* fixed ignore patterns, whatever the file held before.
C10_RoundTrip ==
    (last.op = "load" /\ last.after = "save_interactive_config" /\ NoneSet) =>
        /\ last.res.kind = "ok"
        /\ cfg.confluence.url = PyStr(V(last.arg).url)
        /\ cfg.confluence.api_token = PyStr(V(last.arg).api_token)
        /\ cfg.confluence.space_key = PyStr(V(last.arg).space_key)
        /\ cfg.local_path = Path(V(last.arg).local_path)
        /\ cfg.confluence.username =
              IF V(last.arg).username.t = "str" /\ V(V(last.arg).username) # ""
              THEN V(last.arg).username ELSE PyNone
        /\ cfg.ignore_patterns =
              PyList(<<PyStr("*.tmp"), PyStr(".git/*"), PyStr(".DS_Store")>>)

\* values that YAML would read as a number, null and a boolean if left unquoted
C10_Witness ==
    /\ last.op = "load"
    /\ last.after = "save_interactive_config"
    /\ NoneSet
    /\ last.res.kind = "ok"
    /\ V(last.arg).url = "1"
    /\ V(last.arg).api_token = "null"
    /\ V(last.arg).space_key = "NO"
    /\ V(last.arg).username = PyStr("")
    /\ cfg.confluence.username = PyNone
    /\ cfg.confluence.space_key = PyStr("NO")

(***************************************************************************)
(* Spec: a loader over its life, the file and the environment changing      *)
(* between its operations                                                   *)
(***************************************************************************)
MainArgs == {Args("u", "t", "k", "docs", PyNone), Args("1", "t", "k", "md", PyStr("me"))}

MainFiles ==
    {NoFile, SeqNode(<<Plain("a")>>),
     Top(Conf(Plain("u0"), Plain("t0"), Plain("k0"), NoKey), NoKey, NoKey),
     Top(Conf(Plain("u0"), NoKey, Plain("k0"), NoKey), NoKey, NoKey)}

MainEnvChoices ==
    {<<"CONFLUENCE_URL", Unset>>, <<"CONFLUENCE_URL", SetTo(" eu ")>>,
     <<"IGNORE_PATTERNS", Unset>>, <<"IGNORE_PATTERNS", SetTo("[")>>}

Init ==
    /\ file = NoFile
    /\ environ = NoEnv
    /\ dotenv \in LoadDotenvs
    /\ _config = PyNone
    /\ last = InitLast
    /\ probe = NoProbe

Next ==
    \/ Load
    \/ Config
    \/ SaveTemplate
    \/ SaveInteractiveConfig(MainArgs)
    \/ WriteFile(MainFiles)
    \/ SetEnv(MainEnvChoices)

Spec == Init /\ [][Next]_vars

\* C7: a read of config with nothing cached runs load() once and caches what it
\* returns; a read with settings cached returns them and runs no load(), reads
\* neither file nor environment; and nothing but load() and the first read changes
\* the cache, whatever happens to the file and the environment.
C7_CachedAccessor ==
    [][/\ (last'.op = "config" /\ _config.t # "NoneType") =>
             /\ last'.loads = 0
             /\ last'.res = Ok(_config)
             /\ _config' = _config
             /\ environ' = environ
       /\ (last'.op = "config" /\ _config.t = "NoneType") =>
             /\ last'.loads = 1
             /\ last'.res = load(file, environ, dotenv).res
             /\ last'.res.kind = "ok" => _config' = last'.res.val
       /\ last'.op \notin {"load", "config"} => _config' = _config]_vars

\* a cached read after the file or the environment changed: a load() now would
\* not give the settings returned
C7_Witness ==
    /\ last.op = "config"
    /\ last.loads = 0
    /\ last.res = Ok(_config)
    /\ last.after \in {"write_file", "setenv", "save_template", "save_interactive_config"}
    /\ load(file, environ, dotenv).res # Ok(_config)

IsSettings(c) ==
    /\ c.t = "SyncConfig"
    /\ \A f \in RequiredKeys : V(c).confluence[f].t = "str"
    /\ V(c).confluence.username.t \in {"NoneType", "str"}
    /\ V(c).local_path.t = "Path"
    /\ V(c).ignore_patterns.t = "list"
    /\ \A i \in 1..Len(V(V(c).ignore_patterns)) : V(V(c).ignore_patterns)[i].t = "str"

\* C8: a load() that fails leaves the cache as it was, and the cache is always
\* either empty or a validated settings object.
C8_LoadAtomic ==
    /\ [](_config.t = "NoneType" \/ IsSettings(_config))
    /\ [][(last'.op \in {"load", "config"} /\ last'.res.kind # "ok") =>
             _config' = _config]_vars

\* a failed load() with settings of an earlier load still cached
C8_Witness ==
    /\ last.op = "load"
    /\ last.res.kind # "ok"
    /\ _config.t = "SyncConfig"

====
